---- MODULE Spec2Model ----
(***************************************************************************)
(* Model of src/audio_recog.py: a Streamlit page with a microphone column  *)
(* and a file-upload column.                                               *)
(*                                                                         *)
(* Execution model.  One browser session runs the script on one script     *)
(* thread.  Every widget interaction is a rerun request carrying the new   *)
(* widget values.  When the script is not running the request starts a run *)
(* from line 1.  When the script is running (it can only be observed in a  *)
(* blocking library call: opening the microphone, calibrating, listening,  *)
(* recording, the recognition request) the request is queued, and the run  *)
(* is abandoned at the next statement that goes through the Streamlit      *)
(* runtime (an st.* element call or an st.session_state access): the       *)
(* runtime raises a script-control exception there, which derives from     *)
(* BaseException and so passes every "except Exception" of the script, and *)
(* the queued request starts the next run.  Straight-line script code      *)
(* between two blocking calls is one step.  The runtime coalesces the      *)
(* requests that arrive during one run; the model queues one.              *)
(*                                                                         *)
(* A Python string built by an f-string is the tuple of its fragments:     *)
(* f"API error: {e}" is <<"API error: ", e>>, "" is <<>>.                  *)
(***************************************************************************)
EXTENDS Naturals, Sequences, FiniteSets

\* ---- program constants -------------------------------------------------
Languages == {"en-US", "en-GB", "es-ES", "fr-FR", "de-DE", "it-IT", "hi-IN"}
DefaultLanguage == "en-US"
AllowedTypes == {"wav", "mp3", "m4a", "flac", "ogg"}

\* ---- environment: what the user picks and the collaborators return -------
UserLanguages == {"en-US", "es-ES"}
UserFiles == {"wav"}
RejectedFiles == {"txt"}
Audios == {"audio1", "audio2"}
Texts == {"hello world"}
Messages == {"connection reset"}
TimeoutMessage == "listening timed out while waiting for phrase to start"

\* ---- bounds --------------------------------------------------------------
MaxTmp == 2
MaxInflight == 2

VARIABLES
  recording, audio_data, recognized_text,   \* st.session_state
  language, adjust_noise, uploaded_file,    \* widget values as the script reads them
  pc, request, pending,                     \* script position, request of this run, queued request
  shown, mic_view, file_view,               \* what the page offers and displays
  tmpLive,                                  \* temp files on disk
  inflightMic, inflightFile,                \* recognition requests in flight, per column
  stopInListen, captured, wrote, fileOutcome,  \* history
  uploader_error,                           \* what the uploader widget reports
  callLang,                                 \* language tag of the recognition request in flight
  raised,                                   \* exception raised by the last library call of the run
  pairState                                 \* audio_data and recognized_text: same attempt or not

sessionVars == <<recording, audio_data, recognized_text>>
widgetVars == <<language, adjust_noise, uploaded_file>>
viewVars == <<shown, mic_view, file_view>>
netVars == <<inflightMic, inflightFile>>
histVars == <<stopInListen, captured, wrote, fileOutcome>>
obsVars == <<uploader_error, callLang, raised, pairState>>
vars == <<sessionVars, widgetVars, pc, request, pending, viewVars, tmpLive, netVars, histVars,
          obsVars>>

NoExc == [kind |-> "none", msg |-> ""]
Exc(k, m) == [kind |-> k, msg |-> m]
NoReq == [kind |-> "none", val |-> "none"]
Rerun == [kind |-> "rerun", val |-> "none"]
Click(w) == [kind |-> w, val |-> "none"]
Buttons == {"start", "stop", "process", "dl_mic", "dl_file"}
Requests ==
  {Click(w) : w \in Buttons \cup {"noise"}}
    \cup {[kind |-> "lang", val |-> l] : l \in UserLanguages}
    \cup {[kind |-> "file", val |-> f] : f \in UserFiles \cup {"none"}}
\* The interactions of the second specification: every language tag, the
\* buttons that start attempts, file selection.
RequestsWide ==
  {Click(w) : w \in {"start", "stop", "process"}}
    \cup {[kind |-> "lang", val |-> l] : l \in Languages}
    \cup {[kind |-> "file", val |-> f] : f \in UserFiles \cup {"none"}}

MicPcs == {"mic_open", "adjust", "listen", "recognize"}
FilePcs == {"file_open", "file_adjust", "record", "file_recognize"}
BlockingPcs == MicPcs \cup FilePcs

Issue(n) == IF n < MaxInflight THEN n + 1 ELSE n
Return(n) == IF n > 0 THEN n - 1 ELSE 0

Init ==
  /\ recording = FALSE
  /\ audio_data = "None"
  /\ recognized_text = <<>>
  /\ language = DefaultLanguage
  /\ adjust_noise = TRUE
  /\ uploaded_file = "none"
  /\ pc = "top"
  /\ request = "rerun"
  /\ pending = NoReq
  /\ shown = {}
  /\ mic_view = <<>>
  /\ file_view = <<>>
  /\ tmpLive = 0
  /\ inflightMic = 0
  /\ inflightFile = 0
  /\ stopInListen = FALSE
  /\ captured = FALSE
  /\ wrote = FALSE
  /\ fileOutcome = "none"
  /\ uploader_error = <<>>
  /\ callLang = "none"
  /\ raised = NoExc
  /\ pairState = "same"

\* ---- the runtime: starting, queueing and abandoning runs -----------------

\* A run starts from the top with the widget values of its request.
BeginRun(req) ==
  /\ pc' = "top"
  /\ request' = req.kind
  /\ pending' = NoReq
  /\ language' = IF req.kind = "lang" THEN req.val ELSE language
  /\ adjust_noise' = IF req.kind = "noise" THEN ~adjust_noise ELSE adjust_noise
  /\ uploaded_file' = IF req.kind = "file" THEN req.val ELSE uploaded_file

\* The run reaches the end of the script.
EndRun ==
  /\ pc' = "idle"
  /\ request' = "none"
  /\ UNCHANGED <<pending, widgetVars>>

\* A queued request makes the next runtime call abandon the run.
Interrupted == pending # NoReq

\* What the page lets the user do.
Offered(req) ==
  CASE req.kind = "process" -> "process" \in shown /\ tmpLive < MaxTmp
    [] req.kind \in Buttons \ {"process"} -> req.kind \in shown
    [] req.kind = "lang" -> req.val # language
    [] req.kind = "file" -> req.val # uploaded_file
    [] OTHER -> TRUE

\* Variant: a request arriving during a run starts the next run at once,
\* without waiting for the running script to reach a runtime call.
UserActionAsync(req) ==
  /\ pc \in BlockingPcs \cup {"idle"}
  /\ pending = NoReq
  /\ Offered(req)
  /\ BeginRun(req)
  /\ stopInListen' = (pc # "idle" /\ (stopInListen \/ (req.kind = "stop" /\ pc = "listen")))
  /\ uploader_error' = IF req.kind = "file" THEN <<>> ELSE uploader_error
  /\ UNCHANGED <<sessionVars, viewVars, tmpLive, netVars, captured, wrote, fileOutcome,
                 callLang, raised, pairState>>

\* The user interacts while the script waits in a library call or has ended.
UserAction(req) ==
  /\ pc \in BlockingPcs \cup {"idle"}
  /\ pending = NoReq
  /\ Offered(req)
  /\ IF pc = "idle"
       THEN BeginRun(req) /\ stopInListen' = FALSE
       ELSE /\ pending' = req
            /\ stopInListen' = (stopInListen \/ (req.kind = "stop" /\ pc = "listen"))
            /\ UNCHANGED <<pc, request, widgetVars>>
  /\ uploader_error' = IF req.kind = "file" THEN <<>> ELSE uploader_error
  /\ UNCHANGED <<sessionVars, viewVars, tmpLive, netVars, captured, wrote, fileOutcome,
                 callLang, raised, pairState>>

User == \E req \in Requests : UserAction(req)

UserWide == \E req \in RequestsWide : UserAction(req)

\* Variant: the uploader has no type list, so any file becomes its value.
RejectUploadAccepted(f) ==
  /\ f \notin AllowedTypes
  /\ UserAction([kind |-> "file", val |-> f])

\* Lines 149-152: the uploader is restricted to the listed types; a file of
\* another type is refused by the widget: it reports the error, its value is
\* unchanged and no rerun is requested.  The refusal touches nothing the
\* script reads, so its place among the steps of a run does not matter: it is
\* taken between runs.
RejectUpload(f) ==
  /\ pc = "idle"
  /\ f \notin AllowedTypes
  /\ uploader_error = <<>>
  /\ uploader_error' = <<f, " files are not allowed.">>
  /\ UNCHANGED <<sessionVars, widgetVars, pc, request, pending, viewVars, tmpLive, netVars,
                 histVars, callLang, raised, pairState>>

Upload == \E f \in RejectedFiles : RejectUpload(f)

\* ---- column 1: microphone ------------------------------------------------

\* Lines 76-79: the Start button is rendered while not recording; pressed, it
\* sets the flag and reruns.
TopStart ==
  /\ pc = "top" /\ ~recording /\ request = "start"
  /\ recording' = TRUE
  /\ BeginRun(Rerun)
  /\ captured' = FALSE /\ wrote' = FALSE /\ fileOutcome' = "none"
  /\ UNCHANGED <<audio_data, recognized_text, viewVars, tmpLive, netVars, stopInListen>>
  /\ raised' = NoExc
  /\ UNCHANGED <<uploader_error, callLang, pairState>>

\* Lines 82-85: the Stop button is rendered while recording; pressed, it
\* clears the flag and reruns.
TopStop ==
  /\ pc = "top" /\ recording /\ request = "stop"
  /\ recording' = FALSE
  /\ BeginRun(Rerun)
  /\ fileOutcome' = "none"
  /\ UNCHANGED <<audio_data, recognized_text, viewVars, tmpLive, netVars,
                 stopInListen, captured, wrote>>
  /\ raised' = NoExc
  /\ UNCHANGED <<uploader_error, callLang, pairState>>

\* Lines 82-92: recording, Stop rendered and not pressed: enter the capture block.
TopMic ==
  /\ pc = "top" /\ recording /\ request # "stop"
  /\ shown' = (shown \ {"start"}) \cup {"stop"}
  /\ mic_view' = <<"Recording... Speak now!">>
  /\ pc' = "mic_open"
  /\ fileOutcome' = "none"
  /\ UNCHANGED <<sessionVars, widgetVars, request, pending, file_view, tmpLive, netVars,
                 stopInListen, captured, wrote>>
  /\ raised' = NoExc
  /\ UNCHANGED <<uploader_error, callLang, pairState>>

\* Lines 76-88: not recording, Start rendered and not pressed: the capture
\* block is skipped.
TopIdle ==
  /\ pc = "top" /\ ~recording /\ request # "start"
  /\ shown' = (shown \ {"stop"}) \cup {"start"}
  /\ mic_view' = <<>>
  /\ pc' = "sink"
  /\ fileOutcome' = "none"
  /\ UNCHANGED <<sessionVars, widgetVars, request, pending, file_view, tmpLive, netVars,
                 stopInListen, captured, wrote>>
  /\ raised' = NoExc
  /\ UNCHANGED <<uploader_error, callLang, pairState>>

\* Variant: the exception is not caught by the script: the run ends where it
\* was raised and the handler's message is not rendered.
MicErrorUncaught(m) ==
  /\ EndRun
  /\ raised' = Exc(IF m = TimeoutMessage THEN "timeout" ELSE "device", m)
  /\ UNCHANGED <<sessionVars, viewVars, tmpLive, netVars, histVars,
                 uploader_error, callLang, pairState>>

\* Variant: the handler of the capture block also stores its message as the
\* result of the attempt.
MicErrorStored(m) ==
  /\ IF Interrupted
       THEN BeginRun(pending) /\ UNCHANGED <<mic_view, recognized_text>>
       ELSE /\ mic_view' = <<"Microphone error: ", m>>
            /\ recognized_text' = <<"Microphone error: ", m>>
            /\ pc' = "sink"
            /\ UNCHANGED <<request, pending, widgetVars>>
  /\ raised' = Exc(IF m = TimeoutMessage THEN "timeout" ELSE "device", m)
  /\ UNCHANGED <<recording, audio_data, shown, file_view, tmpLive, netVars, histVars,
                 uploader_error, callLang, pairState>>

\* Lines 122-124: any exception of the capture block.
MicError(m) ==
  /\ IF Interrupted
       THEN BeginRun(pending) /\ UNCHANGED mic_view
       ELSE /\ mic_view' = <<"Microphone error: ", m>>
            /\ pc' = "sink"
            /\ UNCHANGED <<request, pending, widgetVars>>
  /\ raised' = Exc(IF m = TimeoutMessage THEN "timeout" ELSE "device", m)
  /\ UNCHANGED <<sessionVars, shown, file_view, tmpLive, netVars, histVars,
                 uploader_error, callLang, pairState>>

\* Lines 97-101 after the source is open, and line 101 after calibration.
MicProceed(next, status) ==
  /\ IF Interrupted
       THEN BeginRun(pending) /\ UNCHANGED mic_view
       ELSE /\ pc' = next
            /\ mic_view' = <<status>>
            /\ UNCHANGED <<request, pending, widgetVars>>
  /\ UNCHANGED <<sessionVars, shown, file_view, tmpLive, netVars, histVars, obsVars>>

\* Variant: the calibration is done whatever the checkbox says.
MicOpenAlwaysAdjust ==
  /\ pc = "mic_open"
  /\ \/ MicProceed("adjust", "Adjusting for ambient noise...")
     \/ \E m \in Messages : MicError(m)

\* Line 96: sr.Microphone() opens the device, or raises.
MicOpen ==
  /\ pc = "mic_open"
  /\ \/ IF adjust_noise
          THEN MicProceed("adjust", "Adjusting for ambient noise...")
          ELSE MicProceed("listen", "Listening... Speak now!")
     \/ \E m \in Messages : MicError(m)

\* Line 99: r.adjust_for_ambient_noise returns, or raises.
Adjust ==
  /\ pc = "adjust"
  /\ \/ MicProceed("listen", "Listening... Speak now!")
     \/ \E m \in Messages : MicError(m)

\* Variant: the captured audio is kept without going through the runtime, so
\* a queued request does not stop the run before the recognition request.
StoreAudioNoYield(audio) ==
  /\ audio_data' = audio
  /\ inflightMic' = Issue(inflightMic)
  /\ captured' = TRUE
  /\ callLang' = language
  /\ pairState' = "inflight"
  /\ pc' = "recognize"
  /\ UNCHANGED <<request, pending, widgetVars>>
  /\ UNCHANGED <<recording, recognized_text, viewVars, tmpLive, inflightFile,
                 stopInListen, wrote, fileOutcome, uploader_error, raised>>

\* Line 105 and the call of line 109: the captured audio is stored in the
\* session (a runtime call) and the recognition request is issued.
StoreAudio(audio) ==
  /\ IF Interrupted
       THEN /\ BeginRun(pending)
            /\ UNCHANGED <<audio_data, inflightMic, captured, callLang, pairState>>
       ELSE /\ audio_data' = audio
            /\ inflightMic' = Issue(inflightMic)
            /\ captured' = TRUE
            /\ callLang' = language
            /\ pairState' = "inflight"
            /\ pc' = "recognize"
            /\ UNCHANGED <<request, pending, widgetVars>>
  /\ UNCHANGED <<recording, recognized_text, viewVars, tmpLive, inflightFile,
                 stopInListen, wrote, fileOutcome, uploader_error, raised>>

\* Line 104: r.listen returns the phrase, or raises on timeout.
Listen ==
  /\ pc = "listen"
  /\ \/ \E audio \in Audios : StoreAudio(audio)
     \/ MicError(TimeoutMessage)

\* Variant: the recognition step reports its outcome without storing it, so
\* the stored text is still the one of an earlier attempt.
StoreTextSkipped(text) ==
  /\ inflightMic' = Return(inflightMic)
  /\ pairState' = "split"
  /\ IF Interrupted
       THEN /\ BeginRun(pending)
            /\ UNCHANGED <<mic_view, wrote>>
       ELSE /\ mic_view' = IF Len(text) = 1 /\ text[1] \in Texts
                             THEN <<"Recognition successful!">> ELSE text
            /\ wrote' = TRUE
            /\ pc' = "sink"
            /\ UNCHANGED <<request, pending, widgetVars>>
  /\ callLang' = "none"
  /\ UNCHANGED <<recording, audio_data, recognized_text, shown, file_view, tmpLive,
                 inflightFile, stopInListen, captured, fileOutcome, uploader_error>>

\* Variant: the end of the recognition step also clears the recording flag.
StoreTextClearing(text) ==
  /\ inflightMic' = Return(inflightMic)
  /\ IF Interrupted
       THEN /\ BeginRun(pending)
            /\ pairState' = "split"
            /\ UNCHANGED <<recording, recognized_text, mic_view, wrote>>
       ELSE /\ recognized_text' = text
            /\ recording' = FALSE
            /\ pairState' = "same"
            /\ mic_view' = IF Len(text) = 1 /\ text[1] \in Texts
                             THEN <<"Recognition successful!">> ELSE text
            /\ wrote' = TRUE
            /\ pc' = "sink"
            /\ UNCHANGED <<request, pending, widgetVars>>
  /\ callLang' = "none"
  /\ UNCHANGED <<audio_data, shown, file_view, tmpLive, inflightFile,
                 stopInListen, captured, fileOutcome, uploader_error>>

\* Lines 110-120: the outcome of the recognition request is stored in the
\* session (a runtime call) and reported.
StoreText(text) ==
  /\ inflightMic' = Return(inflightMic)
  /\ IF Interrupted
       THEN /\ BeginRun(pending)
            /\ pairState' = "split"
            /\ UNCHANGED <<recognized_text, mic_view, wrote>>
       ELSE /\ recognized_text' = text
            /\ pairState' = "same"
            /\ mic_view' = IF Len(text) = 1 /\ text[1] \in Texts
                             THEN <<"Recognition successful!">> ELSE text
            /\ wrote' = TRUE
            /\ pc' = "sink"
            /\ UNCHANGED <<request, pending, widgetVars>>
  /\ callLang' = "none"
  /\ UNCHANGED <<recording, audio_data, shown, file_view, tmpLive, inflightFile,
                 stopInListen, captured, fileOutcome, uploader_error>>

\* Variant: the clause for unclassified exceptions reports a fixed text and
\* drops the exception's message.
RecognizeNoMessage ==
  /\ pc = "recognize"
  /\ \/ \E t \in Texts : StoreText(<<t>>) /\ raised' = NoExc
     \/ StoreText(<<"Could not understand audio">>) /\ raised' = Exc("unknown_value", "")
     \/ \E m \in Messages : StoreText(<<"API error: ", m>>) /\ raised' = Exc("request", m)
     \/ \E m \in Messages : StoreText(<<"Error: ", "unknown">>) /\ raised' = Exc("other", m)

\* Line 109: r.recognize_google(audio, language=language) returns or raises.
Recognize ==
  /\ pc = "recognize"
  /\ \/ \E t \in Texts : StoreText(<<t>>) /\ raised' = NoExc
     \/ StoreText(<<"Could not understand audio">>) /\ raised' = Exc("unknown_value", "")
     \/ \E m \in Messages : StoreText(<<"API error: ", m>>) /\ raised' = Exc("request", m)
     \/ \E m \in Messages : StoreText(<<"Error: ", m>>) /\ raised' = Exc("other", m)

\* ---- result sink of column 1, head of column 2 ---------------------------

\* Lines 127-170: the microphone result and its download button are rendered
\* when recognized_text is non-empty; the Process button when a file is
\* selected; pressed, it writes the upload to a new temp file.
Sink ==
  /\ pc = "sink"
  /\ shown' = (shown \ {"dl_mic", "process", "dl_file"})
                \cup (IF recognized_text # <<>> THEN {"dl_mic"} ELSE {})
                \cup (IF uploaded_file # "none" THEN {"process"} ELSE {})
  /\ file_view' = <<>>
  /\ IF uploaded_file # "none" /\ request = "process"
       THEN /\ tmpLive' = tmpLive + 1
            /\ pc' = "file_open"
            /\ raised' = NoExc
            /\ UNCHANGED <<request, pending, widgetVars>>
       ELSE EndRun /\ UNCHANGED <<tmpLive, raised>>
  /\ UNCHANGED <<sessionVars, mic_view, netVars, histVars, uploader_error, callLang, pairState>>

\* ---- column 2: file upload -----------------------------------------------

\* Lines 209-211: any exception of the handler; line 207 is not reached.
FileError(m) ==
  /\ IF Interrupted
       THEN BeginRun(pending) /\ UNCHANGED file_view
       ELSE /\ file_view' = <<"Error processing file: ", m>>
            /\ EndRun
  /\ raised' = Exc("other", m)
  /\ callLang' = "none"
  /\ UNCHANGED <<sessionVars, shown, mic_view, tmpLive, inflightMic,
                 stopInListen, captured, wrote, uploader_error, pairState>>

\* Straight-line code between two library calls of the handler: no runtime call.
FileProceed(next) ==
  /\ pc' = next
  /\ UNCHANGED <<sessionVars, widgetVars, request, pending, viewVars, tmpLive, inflightMic,
                 histVars, uploader_error, raised, pairState>>

\* Line 173: sr.AudioFile(tmp_path) opens the file, or raises.
FileOpen ==
  /\ pc = "file_open"
  /\ \/ FileProceed(IF adjust_noise THEN "file_adjust" ELSE "record")
          /\ UNCHANGED <<inflightFile, callLang>>
     \/ \E m \in Messages : FileError(m) /\ UNCHANGED <<inflightFile, fileOutcome>>

\* Line 176: r.adjust_for_ambient_noise returns, or raises.
FileAdjust ==
  /\ pc = "file_adjust"
  /\ \/ FileProceed("record") /\ UNCHANGED <<inflightFile, callLang>>
     \/ \E m \in Messages : FileError(m) /\ UNCHANGED <<inflightFile, fileOutcome>>

\* Variant: the recognition request of the file column is issued without the
\* language argument, so the library's default tag is sent.
RecordDefaultLanguage ==
  /\ pc = "record"
  /\ \/ /\ FileProceed("file_recognize")
        /\ inflightFile' = Issue(inflightFile)
        /\ callLang' = DefaultLanguage
     \/ \E m \in Messages : FileError(m) /\ UNCHANGED <<inflightFile, fileOutcome>>

\* Line 178 and the call of line 181: r.record returns the buffer and the
\* recognition request is issued, or r.record raises.
Record ==
  /\ pc = "record"
  /\ \/ /\ FileProceed("file_recognize")
        /\ inflightFile' = Issue(inflightFile)
        /\ callLang' = language
     \/ \E m \in Messages : FileError(m) /\ UNCHANGED <<inflightFile, fileOutcome>>

\* Lines 184-207: the outcome is rendered (a runtime call), the source is
\* closed and the temp file unlinked; the run ends.
FileShow(view, outcome, widgets) ==
  /\ fileOutcome' = outcome
  /\ IF Interrupted
       THEN BeginRun(pending) /\ UNCHANGED <<file_view, shown, tmpLive>>
       ELSE /\ file_view' = view
            /\ shown' = shown \cup widgets
            /\ tmpLive' = tmpLive - 1
            /\ EndRun
  /\ callLang' = "none"
  /\ UNCHANGED <<sessionVars, mic_view, inflightMic, stopInListen, captured, wrote,
                 uploader_error, pairState>>

\* Line 181: r.recognize_google(audio, language=language) returns or raises.
FileRecognize ==
  /\ pc = "file_recognize"
  /\ inflightFile' = Return(inflightFile)
  /\ \/ \E t \in Texts : FileShow(<<t>>, "ok", {"dl_file"}) /\ raised' = NoExc
     \/ /\ FileShow(<<"Could not understand audio in the file">>, "unknown", {})
        /\ raised' = Exc("unknown_value", "")
     \/ \E m \in Messages :
          FileShow(<<"API error: ", m>>, "request", {}) /\ raised' = Exc("request", m)
     \/ \E m \in Messages : FileError(m) /\ fileOutcome' = "other"

Next ==
  \/ User
  \/ TopStart \/ TopStop \/ TopMic \/ TopIdle
  \/ MicOpen \/ Adjust \/ Listen \/ Recognize
  \/ Sink
  \/ FileOpen \/ FileAdjust \/ Record \/ FileRecognize

Spec == Init /\ [][Next]_vars

\* Second specification: the same script under every language tag and with
\* uploads of a type outside the uploader's list.
NextWide ==
  \/ UserWide \/ Upload
  \/ TopStart \/ TopStop \/ TopMic \/ TopIdle
  \/ MicOpen \/ Adjust \/ Listen \/ Recognize
  \/ Sink
  \/ FileOpen \/ FileAdjust \/ Record \/ FileRecognize

SpecWide == Init /\ [][NextWide]_vars

\* ---- properties ----------------------------------------------------------

ErrorTexts ==
  {<<"Could not understand audio">>}
    \cup {<<"API error: ", m>> : m \in Messages}
    \cup {<<"Error: ", m>> : m \in Messages}
SuccessViews == {<<t>> : t \in Texts}
FileErrorViews ==
  {<<"Could not understand audio in the file">>}
    \cup {<<"API error: ", m>> : m \in Messages}
MicEndViews ==
  {<<"Recognition successful!">>} \cup ErrorTexts
    \cup {<<"Microphone error: ", m>> : m \in Messages \cup {TimeoutMessage}}
FileRequests == {"file", "process", "dl_file"}
NonAttemptRequests == {"lang", "noise", "start", "stop", "dl_mic", "dl_file", "rerun"}

\* C1: whenever the script has ended (every file attempt is finished) no temp
\* file created by the file handler is left on disk.
C1_TempFileDeleted == pc = "idle" => tmpLive = 0

\* C2: once Stop is pressed while the attempt is blocked in r.listen, that
\* attempt issues no recognition request and writes neither audio_data nor
\* recognized_text, and when the script has ended recording is False.
C2_CancelInListen ==
  /\ [](stopInListen => /\ pc # "recognize"
                        /\ inflightMic = 0
                        /\ (pc = "idle" => ~recording))
  /\ [][stopInListen => UNCHANGED <<audio_data, recognized_text>>]_vars

\* C2 witness: Stop was pressed during r.listen, the attempt was abandoned and
\* the machine is idle again.
C2_Witness == stopInListen /\ pc = "idle" /\ ~recording /\ "start" \in shown

\* C3: at most one recognition request is in flight per column, and a start
\* (recording set) or a transcribe (temp file written) is accepted only while
\* no attempt of its column is in flight.
C3_OneInFlight ==
  /\ [](inflightMic <= 1 /\ inflightFile <= 1)
  /\ [][/\ (~recording /\ recording') => (pc \notin MicPcs /\ inflightMic = 0)
        /\ (tmpLive' > tmpLive) => (pc \notin FilePcs /\ inflightFile = 0)]_vars

\* C3 witness: Process is pressed again while the recognition request of the
\* running file attempt is in flight.
C3_Witness == pc = "file_recognize" /\ inflightFile = 1 /\ pending.kind = "process"

\* C4: when the script has ended and the current microphone result is a
\* recognition failure, no download button is offered for it.
C4_DownloadOnlyOnSuccess ==
  (pc = "idle" /\ recognized_text \in ErrorTexts) => "dl_mic" \notin shown

\* C5: when the file recognizer raises UnknownValueError or RequestError, the
\* error is shown, no result and no download button are rendered, and the
\* temp file of the attempt is deleted.
C5_FileFailure ==
  [][(pc = "file_recognize" /\ fileOutcome' \in {"unknown", "request"})
       => /\ file_view' \in FileErrorViews
          /\ "dl_file" \notin shown'
          /\ tmpLive' = tmpLive - 1]_vars

\* C6: between one accepted Start and the next, at most one capture is made
\* and at most one result is written.
C6_OneOutcomePerStart ==
  [][/\ (pc = "listen" /\ pc' = "recognize") => ~captured
     /\ (pc = "recognize" /\ pc' = "sink") => ~wrote]_vars

\* C7: when the script has ended after a microphone attempt that finished
\* (recognized, recognition failure, timeout or device error), recording is
\* False and Start is offered.
C7_IdleAfterAttempt ==
  (pc = "idle" /\ mic_view \in MicEndViews) => (~recording /\ "start" \in shown)

\* C8: a run caused by a file-column action (selecting a file, Process,
\* downloading the file transcript) leaves recording, audio_data and
\* recognized_text unchanged and enters no microphone capture.
C8_FileActionFrame ==
  [][request' \in FileRequests
       => (UNCHANGED sessionVars /\ pc' \notin MicPcs /\ inflightMic' = inflightMic)]_vars

\* C9: a Success displayed in the file column is still displayed after every
\* step of a run that is not a new file attempt.
C9_FileResultHeld ==
  [][(file_view \in SuccessViews /\ request \in NonAttemptRequests)
       => file_view' = file_view]_vars

\* C10: the run caused by the microphone download button leaves recording,
\* audio_data and recognized_text unchanged.
C10_DownloadFrame == [][request = "dl_mic" => UNCHANGED sessionVars]_vars

\* The tag selected in the sidebar when the current run was started.
SelectedAtStart == language

\* C11: while a recognition request of either column is in flight, the tag
\* it carries is a supported tag and is the tag that was selected when the
\* run issuing it was started; no tag is carried otherwise.
C11_LanguagePassed ==
  /\ (inflightMic > 0 \/ inflightFile > 0)
       => (callLang \in Languages /\ callLang = SelectedAtStart)
  /\ (inflightMic = 0 /\ inflightFile = 0) => callLang = "none"

\* C11 witness: the file column's request is in flight with the last tag of
\* the list, after the microphone column has recognized under another tag.
C11_Witness ==
  /\ pc = "file_recognize" /\ callLang = "hi-IN"
  /\ wrote /\ language = "hi-IN"

\* C12: a file whose type is outside the uploader's list is refused with an
\* error by the uploader: it never becomes the uploaded file, the refusal
\* starts no run, and a temp file is written or a recognition request issued
\* only for a file of a listed type.
C12_RejectedUpload ==
  /\ [](uploaded_file \in AllowedTypes \cup {"none"})
  /\ [][(uploader_error = <<>> /\ uploader_error' # <<>>)
          => /\ uploader_error'[1] \notin AllowedTypes
             /\ UNCHANGED <<uploaded_file, pc, request, pending, tmpLive, inflightFile>>]_vars
  /\ [][(tmpLive' > tmpLive \/ inflightFile' > inflightFile)
          => uploaded_file \in AllowedTypes]_vars

\* C12 witness: a file of another type was refused while no file is selected:
\* the error is reported, Process is not offered and no temp file exists.
C12_Witness ==
  /\ uploader_error = <<"txt", " files are not allowed.">>
  /\ pc = "idle" /\ uploaded_file = "none"
  /\ "process" \notin shown /\ tmpLive = 0

MicErrorViews ==
  ErrorTexts \cup {<<"Microphone error: ", m>> : m \in Messages \cup {TimeoutMessage}}
FileAllErrorViews ==
  FileErrorViews \cup {<<"Error processing file: ", m>> : m \in Messages}
AllPcs == BlockingPcs \cup {"top", "sink", "idle"}

\* A library call of the running attempt returns by raising.
Raises == pc \in BlockingPcs /\ raised' # NoExc

\* The handler of the column has run: its error is on the page and the script
\* goes on to its end.
HandledAndShown ==
  IF pc \in MicPcs
    THEN mic_view' \in MicErrorViews /\ pc' = "sink"
    ELSE file_view' \in FileAllErrorViews /\ pc' = "idle"

\* When the script has ended the page accepts a user action.
AcceptsNextAction == pc = "idle" => (pending = NoReq /\ \E req \in Requests : Offered(req))

\* C13 as stated: every exception raised during an attempt is caught by the
\* handler, its error is displayed, and the session accepts the next action.
C13_ErrorDisplayed ==
  /\ [][Raises => HandledAndShown]_vars
  /\ [](pc \in AllPcs /\ AcceptsNextAction)

\* C13 amended: every exception raised during an attempt is caught by the
\* handler; its error is displayed unless an interaction queued during the
\* attempt makes the runtime abandon the run at the displaying call, and then
\* that interaction starts the next run; the session accepts the next action.
C13_ErrorHandled ==
  /\ [][Raises => IF Interrupted
                    THEN pc' = "top" /\ request' = pending.kind /\ pending' = NoReq
                    ELSE HandledAndShown]_vars
  /\ [](pc \in AllPcs /\ AcceptsNextAction)

\* C13 witness: r.listen timed out after Stop had been pressed: the run was
\* abandoned at st.error, the message is not on the page, Stop is processed.
C13_Witness ==
  /\ raised = Exc("timeout", TimeoutMessage)
  /\ pc = "top" /\ request = "stop"
  /\ mic_view = <<"Listening... Speak now!">>

\* Line 123: the label under which a microphone/device failure is reported.
DeviceErrorLabel == "Microphone error: "

\* The failure class the page reports: the label of the rendered error.
ReportedAs(view) == IF Len(view) = 2 THEN view[1] ELSE "none"

\* C14: a listen timeout is reported as a failure kind of its own, distinct
\* from the one used for an unavailable microphone (DeviceError).
C14_TimeoutDistinct ==
  (pc = "sink" /\ raised.kind = "timeout")
    => ReportedAs(mic_view) # DeviceErrorLabel

\* Lines 115, 203: the label of a service/network failure.
ServiceUnavailableLabels == {"API error: "}
\* Lines 118, 210: the labels of an unclassified failure.
UnknownLabels == {"Error: ", "Error processing file: "}

\* The error the step puts on the page of the column it runs in.
ErrorShown == IF pc \in MicPcs THEN mic_view' ELSE file_view'

PreRecognitionPcs == {"mic_open", "adjust", "listen"}

\* C16: a microphone attempt that fails before recognition (timeout of
\* r.listen, or a microphone error) stores no result: from the start of the
\* attempt to its failure no step changes audio_data or recognized_text.
C16_NoResultStored ==
  [][(\/ pc' \in PreRecognitionPcs
      \/ pc \in PreRecognitionPcs /\ pc' # "recognize")
       => UNCHANGED <<audio_data, recognized_text>>]_vars

\* C16 witness: an attempt timed out after an earlier one had succeeded; the
\* earlier result is still stored.
C16_Witness ==
  /\ pc = "sink" /\ raised.kind = "timeout"
  /\ mic_view = <<"Microphone error: ", TimeoutMessage>>
  /\ recognized_text \in SuccessViews /\ audio_data # "None"

\* The step enters position p of the script.
Enters(p) == pc' = p /\ pc # p

\* The order of source, calibration, capture and recognition in one column.
CalibrationOrder(open, calibrate, capture, recognize) ==
  /\ Enters(calibrate) => (pc = open /\ adjust_noise)
  /\ Enters(capture) => \/ pc = calibrate /\ adjust_noise
                        \/ pc = open /\ ~adjust_noise
  /\ Enters(recognize) => pc = capture

\* C17: in both columns the calibration runs if and only if noise adjustment
\* is enabled; it runs after the source is opened and before the capture, and
\* the capture before the recognition request; when disabled the attempt goes
\* from the opened source directly to the capture. The setting is the same
\* during the whole attempt.
C17_CalibrationOrder ==
  [][/\ CalibrationOrder("mic_open", "adjust", "listen", "recognize")
     /\ CalibrationOrder("file_open", "file_adjust", "record", "file_recognize")
     /\ (pc \in BlockingPcs /\ pc' \in BlockingPcs) => adjust_noise' = adjust_noise]_vars

\* C17 witness: with noise adjustment enabled the file handler has calibrated
\* and is recording the file.
C17_Witness ==
  /\ pc = "record" /\ adjust_noise
  /\ uploaded_file \in AllowedTypes /\ tmpLive > 0

\* C18: the recording flag is changed only by the two button handlers: Start
\* sets it, Stop clears it; no end of an attempt and no action of the file
\* column changes it, so once set it stays set until Stop is pressed.
C18_RecordingFrame ==
  [][recording' # recording
       => /\ pc = "top"
          /\ \/ request = "start" /\ recording'
             \/ request = "stop" /\ ~recording']_vars

\* C18 witness: a microphone attempt and a file attempt have both completed
\* in one run and the flag is still set.
C18_Witness ==
  /\ pc = "idle" /\ recording
  /\ wrote /\ fileOutcome = "ok"

\* Line 70 and lines 105-119: a stored text comes with a stored audio.
TextHasAudio == recognized_text # <<>> => audio_data # "None"

\* C19 as stated: at the end of every script run a non-empty recognized_text
\* comes with an audio_data that is not None, and the two were stored by the
\* same attempt.
C19_SameAttempt ==
  pc = "idle" => (TextHasAudio /\ pairState = "same")

\* C19 amended: a non-empty recognized_text always comes with an audio_data
\* that is not None; a recognition step that reaches its write stores its
\* outcome in the run that stored audio_data; the two stem from different
\* attempts only after a run was abandoned, by a queued interaction, between
\* the write of audio_data and the write of recognized_text.
C19_SameAttemptUnlessAbandoned ==
  /\ [](TextHasAudio /\ (pairState = "inflight" <=> pc = "recognize"))
  /\ [][(pc = "recognize" /\ pc' # "recognize" /\ ~Interrupted)
          => /\ recognized_text' \in SuccessViews \cup ErrorTexts
             /\ pairState' = "same"
             /\ UNCHANGED audio_data]_vars
  /\ [][(pairState' = "split" /\ pairState # "split")
          => (pc = "recognize" /\ Interrupted /\ UNCHANGED recognized_text)]_vars

\* C19 witness: after a successful attempt a second one was abandoned during
\* its recognition request; the run that followed has ended with the audio of
\* the second attempt and the text of the first.
C19_Witness ==
  /\ pc = "idle" /\ pairState = "split"
  /\ recognized_text \in SuccessViews /\ audio_data # "None"
====
